---- MODULE Spec2Model ----
(***************************************************************************)
(* A model of validate-pyproject's schema registry, reference handler,     *)
(* validator and vendoring pipeline                                        *)
(* (src/validate_pyproject/api.py, src/validate_pyproject/vendoring).      *)
(***************************************************************************)
EXTENDS Integers, Sequences, FiniteSets, TLC

VARIABLES
    \* a caller of SchemaRegistry
    plugins,        \* the `plugins` argument of SchemaRegistry(...)
    registry,       \* the constructed SchemaRegistry, or NoObject
    raised,         \* the exception __init__ raised, or NoError
    log,            \* records emitted on the module's logger
    lookup,         \* what the last registry query returned
    \* a caller of RefHandler
    handler,        \* the RefHandler: _uri_schemas and _registry
    asked,          \* history: the string keys passed to __contains__ so far
    answer,         \* what the last RefHandler operation returned
    \* a caller of Validator
    args,           \* the arguments of Validator(...) and the compiler's behaviour
    validator,      \* the Validator object, or NoObject
    ncalls,         \* history: calls of the validator so far
    compilations,   \* history: calls of FJS.compile so far
    merges,         \* history: times the formats mapping was built
    call,           \* the last operation on the validator and its outcome
    seen,           \* history: for each document, the outcomes of its calls
    \* a run of vendorify
    venv,           \* the arguments of vendorify and the installed packages
    files,          \* the output directory: file name -> content
    pc,             \* the next step of vendorify
    ran,            \* history: the steps that completed, in order
    vraised         \* the exception that ended vendorify, or NoError

regVars == <<plugins, registry, raised, log, lookup>>
refVars == <<handler, asked, answer>>
valVars == <<args, validator, ncalls, compilations, merges, call, seen>>
venVars == <<venv, files, pc, ran, vraised>>
vars == <<regVars, refVars, valVars, venVars>>

(***************************************************************************)
(* Bounds of the model.                                                    *)
(***************************************************************************)
MaxPlugins == 2

(***************************************************************************)
(* Python values.                                                          *)
(***************************************************************************)
\* A key that a dict does not hold / the None that dict.get returns for it.
NoKey == "<none>"
NoObject == [none |-> TRUE]
NoError == [type |-> "none", arg |-> NoKey]
Exception(type, arg) == [type |-> type, arg |-> arg]

\* bool(v) of a str-or-None value: None and the empty string are falsy.
Truthy(v) == v \notin {NoKey, ""}

\* d[k] = v on a dict modelled as a function.
Put(d, k, v) == [x \in (DOMAIN d) \cup {k} |-> IF x = k THEN v ELSE d[x]]
EmptyDict == [x \in {} |-> NoKey]

(***************************************************************************)
(* The schema resources and the schemas plugins provide.  A schema is      *)
(* abstracted to its `$id` and `$schema` keys (NoKey when the key is       *)
(* absent), its author, and for the top-level schema the two parts that    *)
(* __init__ writes.                                                        *)
(***************************************************************************)
TOP_LEVEL_SCHEMA == "pyproject_toml"
PROJECT_TABLE_SCHEMA == "pep621_project"

SpecVersion == "draft-07"
RootId == "id:build"
ProjectId == "id:project"

Schema(id, version, body) ==
    [id |-> id, version |-> version, body |-> body,
     project |-> NoKey, tool |-> EmptyDict]

\* load(name): the two resources of the package.
load(name) ==
    IF name = TOP_LEVEL_SCHEMA
    THEN Schema(RootId, SpecVersion, TOP_LEVEL_SCHEMA)
    ELSE Schema(ProjectId, SpecVersion, PROJECT_TABLE_SCHEMA)

ToolNames == {"x", "y"}
SchemaIds == {"", "a", "b", ProjectId, RootId}
SchemaVersions == {"", SpecVersion, "draft-04"}

ToolSchemas ==
    { Schema(id, v, "tool") :
        id \in SchemaIds \cup {NoKey}, v \in SchemaVersions \cup {NoKey} }

\* hasattr(p, "format_validators") is false
NoAttr == [noattr |-> TRUE]

Plugin(pid, tool, schema, fmt) ==
    [pid |-> pid, tool_name |-> tool, tool_schema |-> schema,
     format_validators |-> fmt]

\* plugin_id(plugin): one identity per plugin object
plugin_id(plugin) == plugin.pid

(***************************************************************************)
(* SchemaRegistry                                                          *)
(***************************************************************************)
\* The check of _ensure_compatibility: the exception it raises, or NoError
\* when it returns the schema.
_ensure_compatibility(schemas, spec_version, reference, schema) ==
    IF schema.id = NoKey
    THEN Exception("SchemaMissingId", reference)
    ELSE IF Truthy(schema.version) /\ schema.version # spec_version
    THEN Exception("InvalidSchemaVersion", reference)
    ELSE IF schema.id \in DOMAIN schemas
    THEN Exception("SchemaWithDuplicatedId", schema.id)
    ELSE NoError

\* A variant of AddPlugin that stores the schema under the tool's name.
AddPluginKeyedByTool(st, plugin) ==
    LET pid == plugin_id(plugin)
        tool == plugin.tool_name
        schema == plugin.tool_schema
        level == IF tool \in DOMAIN st.tool_properties
                 THEN "warning" ELSE "info"
        st1 == [st EXCEPT !.log = Append(@, <<level, pid, tool>>)]
        chk == _ensure_compatibility(st.schemas, st.spec_version, tool, schema)
    IN  IF chk # NoError
        THEN [st1 EXCEPT !.error = chk]
        ELSE [st1 EXCEPT
                !.tool_properties = Put(@, tool, [ref |-> schema.id]),
                !.schemas = Put(@, tool, <<"tool." \o tool, pid, schema>>)]

\* One iteration of the loop over the plugins.  st is the state of the
\* construction: _schemas, tool_properties, the log and the exception raised.
AddPlugin(st, plugin) ==
    LET pid == plugin_id(plugin)
        tool == plugin.tool_name
        schema == plugin.tool_schema
        level == IF tool \in DOMAIN st.tool_properties
                 THEN "warning" ELSE "info"
        st1 == [st EXCEPT !.log = Append(@, <<level, pid, tool>>)]
        chk == _ensure_compatibility(st.schemas, st.spec_version, tool, schema)
    IN  IF chk # NoError
        THEN [st1 EXCEPT !.error = chk]
        ELSE [st1 EXCEPT
                !.tool_properties = Put(@, tool, [ref |-> schema.id]),
                !.schemas = Put(@, schema.id, <<"tool." \o tool, pid, schema>>)]

RECURSIVE AddPlugins(_, _, _)
AddPlugins(st, ps, i) ==
    IF i > Len(ps) \/ st.error # NoError
    THEN st
    ELSE AddPlugins(AddPlugin(st, ps[i]), ps, i + 1)

\* SchemaRegistry.__init__ up to the end of the loop over the plugins.
RegistryFragments(ps) ==
    LET top_level == load(TOP_LEVEL_SCHEMA)
        project_table_schema == load(PROJECT_TABLE_SCHEMA)
        chk == _ensure_compatibility(EmptyDict, top_level.version,
                                     PROJECT_TABLE_SCHEMA, project_table_schema)
        sid == project_table_schema.id
        st0 == [schemas |-> EmptyDict, tool_properties |-> EmptyDict,
                spec_version |-> top_level.version, project |-> NoKey,
                log |-> <<>>, error |-> chk]
    IN  IF chk # NoError
        THEN st0
        ELSE AddPlugins(
                [st0 EXCEPT
                    !.project = [ref |-> sid],
                    !.schemas = Put(EmptyDict, sid,
                                    <<"project", "PEP621", project_table_schema>>)],
                ps, 1)

\* The whole of SchemaRegistry.__init__: the fragments, then the main schema
\* stored under its own id.
SchemaRegistryNew(ps) ==
    LET st == RegistryFragments(ps)
        top_level == load(TOP_LEVEL_SCHEMA)
        sid == top_level.id
        main_schema == [top_level EXCEPT !.project = st.project,
                                         !.tool = st.tool_properties]
    IN  IF st.error # NoError
        THEN st @@ [main_id |-> NoKey]
        ELSE [st EXCEPT
                !.schemas = Put(@, sid, <<"<$ROOT>", "PEP517/518", main_schema>>)]
             @@ [main_id |-> sid]

\* What the caller of SchemaRegistry(plugins) holds afterwards: the object,
\* or nothing when __init__ raised.
Exposed(built) ==
    IF built.error # NoError
    THEN NoObject
    ELSE [schemas |-> built.schemas, main_id |-> built.main_id,
          spec_version |-> built.spec_version]

\* SchemaRegistry.__getitem__, __len__, main
RegistryGetItem(reg, key) ==
    IF key \in DOMAIN reg.schemas
    THEN [value |-> reg.schemas[key][3], error |-> NoError]
    ELSE [value |-> NoObject, error |-> Exception("KeyError", key)]

RegistryLen(reg) == Cardinality(DOMAIN reg.schemas)

RegistryMain(reg) == reg.schemas[reg.main_id][3]


(***************************************************************************)
(* RefHandler                                                              *)
(***************************************************************************)
\* A key is a Python value: <<type name, value>>.
Str(s) == <<"str", s>>
IsStr(key) == key[1] = "str"

Range(seq) == {seq[i] : i \in DOMAIN seq}

\* RefHandler.__init__
RefHandlerNew(reg) == [uri_schemas |-> <<"http", "https">>, registry |-> reg]

\* RefHandler.__contains__: the answer and the handler afterwards
RefHandlerContains(h, key) ==
    IF ~IsStr(key)
    THEN [result |-> FALSE, handler |-> h]
    ELSE IF key[2] \notin Range(h.uri_schemas)
    THEN [result |-> TRUE,
          handler |-> [h EXCEPT !.uri_schemas = Append(@, key[2])]]
    ELSE [result |-> TRUE, handler |-> h]

\* RefHandler.__iter__ and __len__
RefHandlerIter(h) == h.uri_schemas
RefHandlerLen(h) == Len(h.uri_schemas)

\* A variant of __getitem__ that serves only the schemes it lists.
RefHandlerGetItemListedOnly(h, key) ==
    IF key[2] \in Range(h.uri_schemas)
    THEN [bound_to |-> h.registry]
    ELSE [bound_to |-> [schemas |-> EmptyDict]]

\* RefHandler.__getitem__: the bound method registry.__getitem__
RefHandlerGetItem(h, key) == [bound_to |-> h.registry]

\* Calling the function __getitem__ returned
CallResolver(resolver, uri) == RegistryGetItem(resolver.bound_to, uri)

(***************************************************************************)
(* Validator                                                               *)
(***************************************************************************)
\* An Optional attribute: None, or a value
None == [isnone |-> TRUE, value |-> EmptyDict]
Some(v) == [isnone |-> FALSE, value |-> v]
\* _cache: None, or the compiled function, abstracted to the documents it accepts
NoCache == [isnone |-> TRUE, value |-> {}]
Compiled(accepts) == [isnone |-> FALSE, value |-> accepts]

Docs == 0..2
Fail == -1

\* The extra-validation functions callers pass in this model: each maps a
\* document to a document, or raises (Fail).
HookNames == {"A", "B", "R"}
HookApply(fn, d) ==
    CASE fn = "A" -> (d + 1) % 3
      [] fn = "B" -> IF d = 0 THEN Fail ELSE (2 * d) % 3
      [] OTHER    -> IF d = 2 THEN Fail ELSE d

FormatNames == {"f", "g"}

\* The defaults of Validator's arguments: the functions of the format module
\* (contributor 0, the caller's side) and of the extra_validations module.
FORMAT_FUNCTIONS == [n \in FormatNames |-> 0]
EXTRA_VALIDATIONS == <<"R">>

\* Validator.__init__; a.plugins is the sequence of plugins, already listed
ValidatorNew(a) ==
    LET built == SchemaRegistryNew(a.plugins)
    IN  IF built.error # NoError
        THEN [error |-> built.error, object |-> NoObject, log |-> built.log]
        ELSE [error |-> NoError,
              log |-> built.log,
              object |->
                [cache |-> NoCache,
                 format_validators |-> None,
                 in_format_validators |-> a.format_validators,
                 in_extra_validations |-> a.extra_validations,
                 plugins |-> a.plugins,
                 schema_registry |-> Exposed(built),
                 handlers |-> RefHandlerNew(Exposed(built))]]

\* Validator.schema, Validator.extra_validations, Validator.__getitem__
ValidatorSchema(v) == RegistryMain(v.schema_registry)
ValidatorExtraValidations(v) == v.in_extra_validations
ValidatorGetItem(v, schema_id) == RegistryGetItem(v.schema_registry, schema_id)

\* dict(chain(a.items(), b.items())): the later item of a key is kept
DictUpdate(a, b) ==
    [n \in (DOMAIN a) \cup (DOMAIN b) |-> IF n \in DOMAIN b THEN b[n] ELSE a[n]]

\* A variant of the merge in which the first item of a key is kept.
RECURSIVE MergeFormatsFirstWins(_, _, _)
MergeFormatsFirstWins(acc, ps, i) ==
    IF i > Len(ps) THEN acc
    ELSE MergeFormatsFirstWins(
            IF ps[i].format_validators = NoAttr
            THEN acc ELSE DictUpdate(ps[i].format_validators, acc),
            ps, i + 1)

\* The mapping Validator.formats builds: the caller's formats, then those of
\* each plugin that has the attribute, in the order of the plugins.
RECURSIVE MergeFormats(_, _, _)
MergeFormats(acc, ps, i) ==
    IF i > Len(ps) THEN acc
    ELSE MergeFormats(
            IF ps[i].format_validators = NoAttr
            THEN acc ELSE DictUpdate(acc, ps[i].format_validators),
            ps, i + 1)

\* Validator.formats: the mapping returned, the validator afterwards and
\* whether the mapping was built now
ValidatorFormats(v) ==
    IF v.format_validators.isnone
    THEN LET formats == MergeFormats(v.in_format_validators, v.plugins, 1)
         IN  [value |-> formats, built |-> 1,
              validator |-> [v EXCEPT !.format_validators = Some(formats)]]
    ELSE [value |-> v.format_validators.value, built |-> 0, validator |-> v]

\* A variant of the reduction that applies the functions last to first.
RECURSIVE RunHooksReversed(_, _, _, _)
RunHooksReversed(fns, i, acc, trace) ==
    IF i > Len(fns)
    THEN [trace |-> trace, value |-> acc]
    ELSE LET fn == fns[Len(fns) + 1 - i]
             out == HookApply(fn, acc)
         IN  IF out = Fail
             THEN [trace |-> Append(trace, <<fn, acc>>), value |-> Fail]
             ELSE RunHooksReversed(fns, i + 1, out, Append(trace, <<fn, acc>>))

\* reduce(lambda acc, fn: fn(acc), fns, doc), which ends at the first fn that
\* raises; trace lists each function invoked with the value it received.
RECURSIVE RunHooks(_, _, _, _)
RunHooks(fns, i, acc, trace) ==
    IF i > Len(fns)
    THEN [trace |-> trace, value |-> acc]
    ELSE LET out == HookApply(fns[i], acc)
         IN  IF out = Fail
             THEN [trace |-> Append(trace, <<fns[i], acc>>), value |-> Fail]
             ELSE RunHooks(fns, i + 1, out, Append(trace, <<fns[i], acc>>))

Outcome(status, value, error) ==
    [status |-> status, value |-> value, error |-> error]

\* The part of __call__ after the compilation: the cached function, then
\* the extra validations.
Validate(v, pyproject) ==
    IF pyproject \notin v.cache.value
    THEN [trace |-> <<<<"schema", pyproject>>>>,
          outcome |-> Outcome("raised", Fail, "JsonSchemaValueException")]
    ELSE LET r == RunHooks(ValidatorExtraValidations(v), 1, pyproject,
                           <<<<"schema", pyproject>>>>)
         IN  [trace |-> r.trace,
              outcome |-> IF r.value = Fail
                          THEN Outcome("raised", Fail, "ExtraValidationError")
                          ELSE Outcome("returned", r.value, "none")]

\* A variant of __call__ that compiles on every call.
ValidatorCallNoCache(v, fjs, pyproject) ==
    LET f == ValidatorFormats(v)
    IN  IF ~fjs.compiles
        THEN [validator |-> f.validator, compiled |-> 1, built |-> f.built,
              trace |-> <<>>,
              outcome |-> Outcome("raised", Fail, "JsonSchemaDefinitionException")]
        ELSE LET v1 == [f.validator EXCEPT !.cache = Compiled(fjs.accepts)]
             IN  [validator |-> v1, compiled |-> 1, built |-> f.built]
                 @@ Validate(v1, pyproject)

\* Validator.__call__: the validator afterwards, the number of FJS.compile
\* calls made, whether the formats were built, the stages invoked and the
\* outcome.  fjs is the behaviour of the compiler on this validator's schema:
\* whether FJS.compile returns, and the documents the compiled function accepts.
ValidatorCall(v, fjs, pyproject) ==
    IF v.cache.isnone
    THEN LET f == ValidatorFormats(v)
         IN  IF ~fjs.compiles
             THEN [validator |-> f.validator, compiled |-> 1, built |-> f.built,
                   trace |-> <<>>,
                   outcome |-> Outcome("raised", Fail,
                                       "JsonSchemaDefinitionException")]
             ELSE LET v1 == [f.validator EXCEPT !.cache = Compiled(fjs.accepts)]
                  IN  [validator |-> v1, compiled |-> 1, built |-> f.built]
                      @@ Validate(v1, pyproject)
    ELSE [validator |-> v, compiled |-> 0, built |-> 0]
         @@ Validate(v, pyproject)

(***************************************************************************)
(* vendorify                                                               *)
(***************************************************************************)
\* Path.write_text and Path.touch on the output directory
WriteText(fs, name, text) == Put(fs, name, text)
Touch(fs, name) == IF name \in DOMAIN fs THEN fs ELSE Put(fs, name, "")

\* What importlib.metadata knows of a distribution: "found" (its files hold a
\* LICENSE), "no_license" (they hold none), "no_files" (files() returns None),
\* "not_installed" (files() raises).
LicenseStates == {"found", "no_license", "no_files", "not_installed"}

\* _find_and_load_licence(files)
_find_and_load_licence(dist) ==
    IF dist = "no_files" THEN Exception("ImportError", "LICENSE")
    ELSE IF dist = "no_license" THEN Exception("StopIteration", "LICENSE")
    ELSE NoError

\* A variant of load_licenses that leaves a licence it cannot load empty.
LoadLicensesLenient(installed) == NoError

\* load_licenses(): the exception raised, or NoError when both texts load;
\* the compiler's licence is loaded first.
load_licenses(installed) ==
    IF installed.fastjsonschema = "not_installed"
    THEN Exception("PackageNotFoundError", "fastjsonschema")
    ELSE IF _find_and_load_licence(installed.fastjsonschema) # NoError
    THEN _find_and_load_licence(installed.fastjsonschema)
    ELSE IF installed.validate_pyproject = "not_installed"
    THEN Exception("PackageNotFoundError", "validate-pyproject")
    ELSE _find_and_load_licence(installed.validate_pyproject)

\* copy_fastjsonschema_exceptions and copy_module: the file each writes
copy_fastjsonschema_exceptions(fs) ==
    WriteText(fs, "fastjsonschema_exceptions.py", "exceptions")
copy_module(name, fs) == WriteText(fs, name \o ".py", name)

\* A variant of write_main that always touches the default entry point.
WriteMainDefaultOnly(fs, main_file) == Touch(fs, "__init__.py")

\* write_main: the entry point is only touched
write_main(fs, main_file) == Touch(fs, main_file)

\* write_notice: the exception raised and the directory afterwards
write_notice(fs, main_file, cmd, installed) ==
    LET opening == IF cmd # "" THEN "cli-notice" ELSE "api-notice"
        err == load_licenses(installed)
    IN  IF err # NoError
        THEN [error |-> err, files |-> fs]
        ELSE [error |-> NoError,
              files |-> WriteText(fs, "NOTICE", "NOTICE:" \o opening)]

\* The steps of vendorify after the validator's code is written, in order
Steps == <<"generate", "exceptions", "extra_validations", "format",
           "main", "notice", "marker">>

(***************************************************************************)
(* Further bounds of the model.                                            *)
(***************************************************************************)
MaxHooks == 2
MaxCalls == 3

(***************************************************************************)
(* The variables of the callers that a specification leaves alone.         *)
(***************************************************************************)
NotRun == [notrun |-> TRUE]
\* no operation yet
NoOp == [op |-> "none"]

RegIdle ==
    /\ plugins = <<>> /\ registry = NotRun /\ raised = NoError
    /\ log = <<>> /\ lookup = NoOp
RefIdle == handler = NotRun /\ asked = {} /\ answer = NoOp
ValIdle ==
    /\ args = NotRun /\ validator = NotRun /\ ncalls = 0 /\ compilations = 0
    /\ merges = 0 /\ call = NoOp /\ seen = NotRun
VenIdle ==
    /\ venv = NotRun /\ files = EmptyDict /\ pc = "idle" /\ ran = <<>>
    /\ vraised = NoError

SeqsUpTo(S, n) == UNION { [1..k -> S] : k \in 0..n }

(***************************************************************************)
(* RegSpec: a caller constructs one registry from a sequence of plugins    *)
(* and then queries it.                                                    *)
(***************************************************************************)
\* The i-th plugin of a caller: plugin objects are distinct, so each has its
\* own plugin_id.
RegistryPlugin(i, choice) == Plugin(i, choice[1], choice[2], NoAttr)

RegInit ==
    /\ \E n \in 0..MaxPlugins :
         \E f \in [1..n -> ToolNames \X ToolSchemas] :
            plugins = [i \in 1..n |-> RegistryPlugin(i, f[i])]
    /\ registry = NotRun
    /\ raised = NoError
    /\ log = <<>>
    /\ lookup = NoOp
    /\ RefIdle /\ ValIdle /\ VenIdle

Construct ==
    /\ registry = NotRun
    /\ LET built == SchemaRegistryNew(plugins)
       IN  /\ registry' = Exposed(built)
           /\ raised' = built.error
           /\ log' = log \o built.log
    /\ UNCHANGED <<plugins, lookup, refVars, valVars, venVars>>

GetItem ==
    /\ registry \notin {NotRun, NoObject}
    /\ \E key \in SchemaIds :
         LET r == RegistryGetItem(registry, key)
         IN  lookup' = [op |-> "getitem", key |-> key, value |-> r.value,
                        error |-> r.error]
    /\ UNCHANGED <<plugins, registry, raised, log, refVars, valVars, venVars>>

GetLen ==
    /\ registry \notin {NotRun, NoObject}
    /\ lookup' = [op |-> "len", key |-> NoKey,
                  value |-> RegistryLen(registry), error |-> NoError]
    /\ UNCHANGED <<plugins, registry, raised, log, refVars, valVars, venVars>>

RegNext == Construct \/ GetItem \/ GetLen

RegSpec == RegInit /\ [][RegNext]_vars

(***************************************************************************)
(* RefSpec: the schema compiler queries one RefHandler.                    *)
(***************************************************************************)
Schemes == {"http", "https", "ftp", "file", "urn"}
Keys == {Str(s) : s \in Schemes} \cup {<<"int", "42">>, <<"NoneType", "None">>}

RefRegistries ==
    { Exposed(SchemaRegistryNew(ps)) :
        ps \in { <<>>, <<Plugin(1, "x", Schema("a", NoKey, "tool"), NoAttr)>> } }

RefInit ==
    /\ handler \in { RefHandlerNew(reg) : reg \in RefRegistries }
    /\ asked = {}
    /\ answer = NoOp
    /\ RegIdle /\ ValIdle /\ VenIdle

Contains ==
    /\ \E key \in Keys :
         LET r == RefHandlerContains(handler, key)
         IN  /\ handler' = r.handler
             /\ asked' = IF IsStr(key) THEN asked \cup {key[2]} ELSE asked
             /\ answer' = [op |-> "contains", key |-> key, uri |-> NoKey,
                           value |-> r.result]
    /\ UNCHANGED <<regVars, valVars, venVars>>

Resolve ==
    /\ \E key \in Keys, uri \in SchemaIds :
         /\ IsStr(key)
         /\ answer' = [op |-> "resolve", key |-> key, uri |-> uri,
                       value |-> CallResolver(RefHandlerGetItem(handler, key), uri)]
    /\ UNCHANGED <<handler, asked, regVars, valVars, venVars>>

Length ==
    /\ answer' = [op |-> "len", key |-> <<"NoneType", "None">>, uri |-> NoKey,
                  value |-> RefHandlerLen(handler)]
    /\ UNCHANGED <<handler, asked, regVars, valVars, venVars>>

RefNext == Contains \/ Resolve \/ Length

RefSpec == RefInit /\ [][RefNext]_vars

(***************************************************************************)
(* CallSpec and FormatSpec: a caller constructs one Validator, calls it    *)
(* and reads its formats.  CallSpec varies the extra validations and the   *)
(* compiler's behaviour, FormatSpec the format mappings.                   *)
(***************************************************************************)
\* The formats of contributor c (0: the caller, i: the i-th plugin): a
\* function of c's own under each name of S.
FormatsOf(c, S) == [n \in S |-> c]

ToolSchemaIds == <<"a", "b", "c", "d">>

\* What a plugin's format_validators may be: no attribute, or a mapping of
\* the plugin's own functions.
FormatChoices == [has : BOOLEAN, names : SUBSET FormatNames]

FormatPlugin(i, choice) ==
    Plugin(i, "x", Schema(ToolSchemaIds[i], NoKey, "tool"),
           IF choice.has THEN FormatsOf(i, choice.names) ELSE NoAttr)

Compilers == [compiles : BOOLEAN, accepts : {Docs, Docs \ {2}}]

CallArgs ==
    [plugins : {<<>>, <<Plugin(1, "x", Schema(NoKey, NoKey, "tool"), NoAttr)>>},
     format_validators : {FormatsOf(0, {"f"})},
     extra_validations : SeqsUpTo(HookNames, MaxHooks),
     fjs : Compilers]

ValStart ==
    /\ validator = NotRun
    /\ ncalls = 0 /\ compilations = 0 /\ merges = 0
    /\ call = NoOp
    /\ seen = [d \in Docs |-> {}]
    /\ RegIdle /\ RefIdle /\ VenIdle

CallInit == args \in CallArgs /\ ValStart
FormatInit ==
    /\ \E n \in 0..MaxPlugins :
         \E f \in [1..n -> FormatChoices], S \in SUBSET FormatNames :
            args = [plugins |-> [i \in 1..n |-> FormatPlugin(i, f[i])],
                    format_validators |-> FormatsOf(0, S),
                    extra_validations |-> <<>>,
                    fjs |-> [compiles |-> TRUE, accepts |-> Docs]]
    /\ ValStart

NewValidator ==
    /\ validator = NotRun
    /\ LET r == ValidatorNew(args)
       IN  /\ validator' = r.object
           /\ call' = [op |-> "new", doc |-> Fail, trace |-> <<>>,
                       outcome |-> IF r.error = NoError
                                   THEN Outcome("returned", Fail, "none")
                                   ELSE Outcome("raised", Fail, r.error.type)]
    /\ UNCHANGED <<args, ncalls, compilations, merges, seen,
                   regVars, refVars, venVars>>

Call ==
    /\ validator \notin {NotRun, NoObject}
    /\ ncalls < MaxCalls
    /\ \E doc \in Docs :
         LET r == ValidatorCall(validator, args.fjs, doc)
         IN  /\ validator' = r.validator
             /\ ncalls' = ncalls + 1
             /\ compilations' = compilations + r.compiled
             /\ merges' = merges + r.built
             /\ call' = [op |-> "call", doc |-> doc, trace |-> r.trace,
                         outcome |-> r.outcome]
             /\ seen' = [seen EXCEPT ![doc] = @ \cup {r.outcome}]
    /\ UNCHANGED <<args, regVars, refVars, venVars>>

GetFormats ==
    /\ validator \notin {NotRun, NoObject}
    /\ LET r == ValidatorFormats(validator)
       IN  /\ validator' = r.validator
           /\ merges' = merges + r.built
           /\ call' = [op |-> "formats", doc |-> Fail, trace |-> <<>>,
                       outcome |-> r.value]
    /\ UNCHANGED <<args, ncalls, compilations, seen, regVars, refVars, venVars>>

ValNext == NewValidator \/ Call \/ GetFormats

CallSpec == CallInit /\ [][ValNext]_vars
FormatSpec == FormatInit /\ [][ValNext]_vars

(***************************************************************************)
(* VendorSpec: one run of vendorify, a step at a time.  venv holds the     *)
(* arguments, what importlib.metadata knows of the two distributions, the  *)
(* files the output directory held before, and the step (if any) at which  *)
(* the file system raises OSError.                                         *)
(***************************************************************************)
MainFiles == {"__init__.py", "main.py", "NOTICE", "format.py"}

VendorPlugins ==
    { <<>>,
      <<Plugin(1, "x", Schema("a", NoKey, "tool"), NoAttr)>>,
      <<Plugin(1, "x", Schema(NoKey, NoKey, "tool"), NoAttr)>> }

VendorEnvs ==
    [main_file : MainFiles,
     original_cmd : {"", "validate-pyproject"},
     plugins : VendorPlugins,
     installed : [fastjsonschema : LicenseStates,
                  validate_pyproject : LicenseStates],
     existing : {EmptyDict, Put(EmptyDict, "stale.py", "stale")},
     os_error : {"none"} \cup Range(Steps)]

VendorInit ==
    /\ venv \in VendorEnvs
    /\ files = venv.existing
    /\ pc = "generate"
    /\ ran = <<>>
    /\ vraised = NoError
    /\ RegIdle /\ RefIdle /\ ValIdle

\* The step after `step`, or "done" when vendorify returns.
NextStep(step) ==
    LET i == CHOOSE k \in DOMAIN Steps : Steps[k] = step
    IN  IF i = Len(Steps) THEN "done" ELSE Steps[i + 1]

\* The step at pc: it completes with directory fs, or it raises err.
Step(step, err, fs) ==
    /\ pc = step
    /\ IF venv.os_error = step
       THEN /\ pc' = "aborted"
            /\ vraised' = Exception("OSError", step)
            /\ UNCHANGED <<files, ran>>
       ELSE IF err # NoError
       THEN /\ pc' = "aborted"
            /\ vraised' = err
            /\ UNCHANGED <<files, ran>>
       ELSE /\ pc' = NextStep(step)
            /\ files' = fs
            /\ ran' = Append(ran, step)
            /\ UNCHANGED vraised
    /\ UNCHANGED <<venv, regVars, refVars, valVars>>

\* out.mkdir, Validator(plugins), compile_to_code, the validator's file
Generate ==
    Step("generate",
         ValidatorNew([plugins |-> venv.plugins,
                       format_validators |-> FORMAT_FUNCTIONS,
                       extra_validations |-> EXTRA_VALIDATIONS]).error,
         WriteText(files, "fastjsonschema_validations.py", "validations"))

CopyExceptions ==
    Step("exceptions", NoError, copy_fastjsonschema_exceptions(files))

CopyExtraValidations ==
    Step("extra_validations", NoError, copy_module("extra_validations", files))

CopyFormat == Step("format", NoError, copy_module("format", files))

WriteMain == Step("main", NoError, write_main(files, venv.main_file))

WriteNotice ==
    LET r == write_notice(files, venv.main_file, venv.original_cmd,
                          venv.installed)
    IN  Step("notice", r.error, r.files)

TouchInit == Step("marker", NoError, Touch(files, "__init__.py"))

VendorNext ==
    \/ Generate \/ CopyExceptions \/ CopyExtraValidations \/ CopyFormat
    \/ WriteMain \/ WriteNotice \/ TouchInit

VendorSpec == VendorInit /\ [][VendorNext]_vars

(***************************************************************************)
(* Properties of SchemaRegistry (RegSpec)                                  *)
(***************************************************************************)
Constructed == registry \notin {NotRun, NoObject}
ConstructionEnded == registry # NotRun

Max(S) == CHOOSE x \in S : \A y \in S : y <= x
Min(S) == CHOOSE x \in S : \A y \in S : x <= y

\* every tool schema has an `$id` and no two share one
PairwiseDistinctIds(ps) ==
    /\ \A i \in DOMAIN ps : ps[i].tool_schema.id # NoKey
    /\ \A i, j \in DOMAIN ps :
         i # j => ps[i].tool_schema.id # ps[j].tool_schema.id

\* every tool schema's `$schema` is absent or the registry's
VersionsMatch(ps) ==
    \A i \in DOMAIN ps : ps[i].tool_schema.version \in {NoKey, SpecVersion}

DistinctFromCore(ps) ==
    \A i \in DOMAIN ps : ps[i].tool_schema.id \notin {ProjectId, RootId}

\* C1 as stated: n plugins with pairwise-distinct `$id`s and matching (or
\* absent) spec versions always construct, and len(registry) = n + 2.  It is
\* stated here for the plugins that do not use the root schema's `$id`, where
\* the root schema's unchecked registration (C2) plays no part.
C1_Original ==
    (/\ ConstructionEnded
     /\ PairwiseDistinctIds(plugins)
     /\ VersionsMatch(plugins)
     /\ \A i \in DOMAIN plugins : plugins[i].tool_schema.id # RootId)
    => (/\ registry # NoObject
        /\ RegistryLen(registry) = Len(plugins) + 2)

\* C1 as amended: n plugins whose `$id`s are pairwise distinct and distinct
\* from the `$id`s of the project-table and root schemas, with matching (or
\* absent) spec versions, always construct, and len(registry) = n + 2.
C1_LenIsPluginsPlusTwo ==
    (/\ ConstructionEnded
     /\ PairwiseDistinctIds(plugins)
     /\ DistinctFromCore(plugins)
     /\ VersionsMatch(plugins))
    => (/\ registry # NoObject
        /\ raised = NoError
        /\ RegistryLen(registry) = Len(plugins) + 2
        /\ lookup.op = "len" => lookup.value = Len(plugins) + 2)

C1_Witness ==
    /\ Constructed
    /\ Len(plugins) = 2
    /\ plugins[1].tool_name = plugins[2].tool_name
    /\ PairwiseDistinctIds(plugins)
    /\ DistinctFromCore(plugins)
    /\ VersionsMatch(plugins)
    /\ lookup.op = "len"
    /\ lookup.value = 4

\* The `$id`s of the schemas one construction stores, in the order stored
RegisteredIds(ps) ==
    <<ProjectId>> \o [i \in DOMAIN ps |-> ps[i].tool_schema.id] \o <<RootId>>

HasDuplicate(seq) == \E i, j \in DOMAIN seq : i # j /\ seq[i] = seq[j]

\* C2: when two of the schemas one construction stores (project table, tool
\* schemas, root) carry the same `$id` and no other check fails first, the
\* construction fails with SchemaWithDuplicatedId.
C2_DuplicateIdAlwaysFails ==
    (/\ ConstructionEnded
     /\ \A i \in DOMAIN plugins : plugins[i].tool_schema.id # NoKey
     /\ VersionsMatch(plugins)
     /\ HasDuplicate(RegisteredIds(plugins)))
    => (registry = NoObject /\ raised.type = "SchemaWithDuplicatedId")

Declaring(ps, t) == {i \in DOMAIN ps : ps[i].tool_name = t}

\* C3: in every registry that constructs, for every tool name t some plugin
\* declares, the root schema's tool.t is a `$ref` to the `$id` of the last
\* plugin declaring t, each further declaration of t only logged a warning,
\* and the tool schema of every earlier plugin declaring t is what the
\* registry returns for that schema's own `$id`.
C3_LastPluginWins ==
    Constructed =>
      \A t \in ToolNames :
        LET decl == Declaring(plugins, t)
        IN  decl # {} =>
              /\ t \in DOMAIN RegistryMain(registry).tool
              /\ RegistryMain(registry).tool[t]
                   = [ref |-> plugins[Max(decl)].tool_schema.id]
              /\ \A i \in decl :
                   i # Min(decl) => <<"warning", plugin_id(plugins[i]), t>> \in Range(log)
              /\ \A i \in decl :
                   i < Max(decl) =>
                     RegistryGetItem(registry, plugins[i].tool_schema.id).value
                       = plugins[i].tool_schema

\* The fragments the compatibility check sees
Fragments(ps) ==
    {load(PROJECT_TABLE_SCHEMA)} \cup {ps[i].tool_schema : i \in DOMAIN ps}

\* C10: in every registry that constructs, each fragment (project-table
\* schema, tool schemas) is stored under its own `$id`, that `$id` is not
\* empty, and a fragment that has a `$schema` key has the registry's
\* spec_version there; a construction that fails raises one of the three
\* compatibility errors and exposes no registry.
C10_AdmittedFragments ==
    ConstructionEnded =>
      IF registry # NoObject
      THEN \A frag \in Fragments(plugins) :
             /\ frag.id \notin {NoKey, ""}
             /\ frag.id \in DOMAIN registry.schemas
             /\ registry.schemas[frag.id][3] = frag
             /\ frag.version # NoKey => frag.version = registry.spec_version
      ELSE raised.type \in {"SchemaMissingId", "InvalidSchemaVersion",
                            "SchemaWithDuplicatedId"}

(***************************************************************************)
(* Properties of RefHandler (RefSpec)                                      *)
(***************************************************************************)
IsPrefix(s, t) == Len(s) <= Len(t) /\ \A i \in DOMAIN s : s[i] = t[i]

\* The state part of C7: what is remembered, and what the last operation
\* answered.
C7_State ==
    LET listed == {"http", "https"} \cup asked
    IN  /\ Range(handler.uri_schemas) = listed
        /\ Len(handler.uri_schemas) = Cardinality(listed)
        /\ (answer.op = "contains" /\ IsStr(answer.key)) => answer.value = TRUE
        /\ answer.op = "len" => answer.value = Cardinality(listed)
        /\ answer.op = "resolve" =>
             IF answer.uri \in DOMAIN handler.registry.schemas
             THEN /\ answer.value.error = NoError
                  /\ answer.value.value = handler.registry.schemas[answer.uri][3]
             ELSE answer.value.error = Exception("KeyError", answer.uri)

\* C7: after any sequence of containment queries and lookups, the remembered
\* schemes are http, https and every string scheme queried so far, each once;
\* every query with a string scheme is answered True; the function returned
\* for any scheme returns Registry[id] whatever the scheme; and the list only
\* grows at its end.
C7_RememberedSchemes ==
    /\ []C7_State
    /\ [][IsPrefix(handler.uri_schemas, handler.uri_schemas')]_vars

C7_Witness ==
    /\ Len(handler.uri_schemas) = 4
    /\ asked = {"ftp", "http", "urn"}
    /\ "a" \in DOMAIN handler.registry.schemas
    /\ answer.op = "resolve"
    /\ answer.key = Str("file")
    /\ answer.uri = "a"
    /\ answer.value.error = NoError

(***************************************************************************)
(* Properties of Validator (CallSpec, FormatSpec)                          *)
(***************************************************************************)
HasValidator == validator \notin {NotRun, NoObject}

\* C4 as stated: over any sequence of calls the schema is compiled at most
\* once, the first call compiling and storing the function.
C4_Original ==
    HasValidator =>
      /\ compilations <= 1
      /\ ncalls >= 1 => (compilations = 1 /\ ~validator.cache.isnone)

\* C4 as amended: when FJS.compile returns, the first call compiles and
\* stores the function and no later call compiles again, also after a call
\* that rejected its document; when FJS.compile raises, nothing is stored
\* and every call compiles again; and all calls with the same document have
\* the same outcome.
C4_CompiledAtMostOnce ==
    HasValidator =>
      /\ args.fjs.compiles =>
           /\ compilations = (IF ncalls = 0 THEN 0 ELSE 1)
           /\ validator.cache.isnone <=> ncalls = 0
      /\ ~args.fjs.compiles =>
           /\ validator.cache.isnone
           /\ compilations = ncalls
      /\ \A d \in Docs : Cardinality(seen[d]) <= 1

C4_Witness ==
    /\ HasValidator
    /\ ncalls = 3
    /\ compilations = 1
    /\ seen[2] = {Outcome("raised", Fail, "JsonSchemaValueException")}
    /\ seen[1] = {}
    /\ \E o \in seen[0] : o.status = "returned"
    /\ call.op = "call" /\ call.doc = 0

\* C5: a call runs the compiled validator first, on the document, then the
\* extra validations in list order, each on the previous one's result; the
\* first stage to fail is the last one invoked and the call raises; when
\* none fails the call returns the last result, B(A(doc)) for the list A, B.
C5_StagesInOrder ==
    (call.op = "call" /\ call.outcome.error # "JsonSchemaDefinitionException") =>
      LET fns == args.extra_validations
          tr == call.trace
          doc == call.doc
          out == call.outcome
          Failed(k) == IF k = 1 THEN doc \notin args.fjs.accepts
                       ELSE HookApply(tr[k][1], tr[k][2]) = Fail
      IN  /\ Len(tr) >= 1
          /\ Len(tr) <= Len(fns) + 1
          /\ tr[1] = <<"schema", doc>>
          /\ \A k \in 2..Len(tr) :
               /\ tr[k][1] = fns[k - 1]
               /\ tr[k][2] = (IF k = 2 THEN doc
                              ELSE HookApply(fns[k - 2], tr[k - 1][2]))
               /\ ~Failed(k - 1)
          /\ IF Failed(Len(tr))
             THEN /\ out.status = "raised"
                  /\ out.error = (IF Len(tr) = 1 THEN "JsonSchemaValueException"
                                  ELSE "ExtraValidationError")
             ELSE /\ Len(tr) = Len(fns) + 1
                  /\ out.status = "returned"
                  /\ out.value = (IF Len(fns) = 0 THEN doc
                                  ELSE HookApply(fns[Len(fns)], tr[Len(tr)][2]))
          /\ (Len(fns) = 2 /\ out.status = "returned") =>
               out.value = HookApply(fns[2], HookApply(fns[1], doc))

C5_Witness ==
    /\ call.op = "call"
    /\ args.extra_validations = <<"A", "B">>
    /\ call.doc = 0
    /\ call.outcome = Outcome("returned", 2, "none")
    /\ call.trace = <<<<"schema", 0>>, <<"A", 0>>, <<"B", 1>>>>

\* The contributors of formats that define name n: 0 is the caller's
\* mapping, i the i-th plugin.
Defining(n) ==
    {c \in 0..Len(args.plugins) :
        IF c = 0 THEN n \in DOMAIN args.format_validators
        ELSE /\ args.plugins[c].format_validators # NoAttr
             /\ n \in DOMAIN args.plugins[c].format_validators}

ContributedBy(c, n) ==
    IF c = 0 THEN args.format_validators[n]
    ELSE args.plugins[c].format_validators[n]

LastContributorWins(formats) ==
    \A n \in FormatNames :
       /\ n \in DOMAIN formats <=> Defining(n) # {}
       /\ n \in DOMAIN formats => formats[n] = ContributedBy(Max(Defining(n)), n)

\* C6: Validator.formats binds every format name to the function of the
\* last contributor defining it (the caller's mapping, then the plugins in
\* order, those without format_validators contributing nothing); the
\* mapping is built on the first access, once, and every access returns it.
C6_FormatsMerge ==
    HasValidator =>
      /\ merges <= 1
      /\ validator.format_validators.isnone <=> merges = 0
      /\ ~validator.format_validators.isnone =>
           /\ DOMAIN validator.format_validators.value \subseteq FormatNames
           /\ LastContributorWins(validator.format_validators.value)
      /\ call.op = "formats" =>
           /\ ~validator.format_validators.isnone
           /\ call.outcome = validator.format_validators.value

C6_Witness ==
    /\ HasValidator
    /\ Len(args.plugins) = 2
    /\ DOMAIN args.format_validators = {"f", "g"}
    /\ args.plugins[1].format_validators = FormatsOf(1, {"f"})
    /\ args.plugins[2].format_validators = NoAttr
    /\ call.op = "formats"
    /\ call.outcome["f"] = 1
    /\ call.outcome["g"] = 0
    /\ ncalls = 1

(***************************************************************************)
(* Properties of vendorify (VendorSpec)                                    *)
(***************************************************************************)
FixedFiles ==
    {"__init__.py", "fastjsonschema_validations.py",
     "fastjsonschema_exceptions.py", "extra_validations.py", "format.py",
     "NOTICE"}

\* C8: a run that returns, with zero plugins and an output directory that
\* was empty, leaves exactly the fixed files and the file named main_file.
C8_FixedFileSet ==
    (pc = "done" /\ venv.plugins = <<>> /\ venv.existing = EmptyDict)
    => DOMAIN files = FixedFiles \cup {venv.main_file}

C8_Witness ==
    /\ pc = "done"
    /\ venv.plugins = <<>>
    /\ venv.existing = EmptyDict
    /\ venv.main_file = "__init__.py"
    /\ DOMAIN files = FixedFiles

LicenseMissing ==
    \/ venv.installed.fastjsonschema # "found"
    \/ venv.installed.validate_pyproject # "found"

AttributionErrors == {"ImportError", "StopIteration", "PackageNotFoundError"}

BeforeNotice == SubSeq(Steps, 1, 5)

\* C9: when the licence of either distribution cannot be located, vendorify
\* never returns, never writes the NOTICE text and never runs the package
\* marker step; once the five steps before the NOTICE step have run it ends
\* with the exception of the licence lookup (unless the file system fails
\* that step first), and the files of those five steps are on disk.
C9_NoNoticeWithoutLicense ==
    (pc # "idle" /\ LicenseMissing) =>
      /\ pc # "done"
      /\ "notice" \notin Range(ran) /\ "marker" \notin Range(ran)
      /\ "NOTICE" \in DOMAIN files => files["NOTICE"] = ""
      /\ (ran = BeforeNotice /\ pc # "notice" /\ venv.os_error # "notice") =>
           /\ pc = "aborted"
           /\ vraised.type \in AttributionErrors
           /\ {"fastjsonschema_validations.py", "fastjsonschema_exceptions.py",
               "extra_validations.py", "format.py", venv.main_file}
                 \subseteq DOMAIN files

C9_Witness ==
    /\ pc = "aborted"
    /\ venv.installed.fastjsonschema = "found"
    /\ venv.installed.validate_pyproject = "no_license"
    /\ vraised.type = "StopIteration"
    /\ ran = BeforeNotice
    /\ venv.main_file = "main.py"
    /\ DOMAIN files = {"fastjsonschema_validations.py",
                       "fastjsonschema_exceptions.py", "extra_validations.py",
                       "format.py", "main.py"}

====
